---- MODULE Spec2Model ----
(***************************************************************************)
(* Health-check service of src/main.py: a JSON description of components   *)
(* and their dependency lists is turned into a networkx DiGraph, walked by *)
(* a recursive asynchronous DFS that probes every component, and reported  *)
(* as a text table.                                                        *)
(*                                                                         *)
(* Components are opaque identifiers; they are numbered 1..NumComp.  The   *)
(* keys of a description are the components 1..Len(data), in that order:   *)
(* nothing in the program depends on the identifiers themselves (the probe *)
(* result is an arbitrary function of the identifier), so every            *)
(* description is a renaming of one of this form.                          *)
(***************************************************************************)
EXTENDS Naturals, Sequences, FiniteSets

\* Size of the universe of component identifiers.
NumComp == 3

\* Largest total number of dependency entries in a description.
MaxEdges == 3

Comp == 1..NumComp

\* The interpreter's recursion limit, scaled to the model: above the depth
\* any walk of an acyclic graph over Comp can reach, below infinity.
RecursionLimit == NumComp + 1

\* A recursion limit below the depth of the longest chain over Comp: the
\* interpreter's limit as a description deeper than it meets it.
DeepLimit == 2

\* Two concurrent requests: size of the component universe of each
\* description.
PairComp == 2

\* Two concurrent requests: number of dependency entries of one description
\* when both are given the same, of the two together when they may differ.
PairEdges == 1

VARIABLES
    data,        \* per request: the parsed JSON object, key -> dependency list
    endpoint,    \* per request: "healthcheck" or "graph"
    recursion_limit,  \* process-wide: the interpreter's recursion limit
    pc,          \* per request: position of the handler
    dag,         \* per request: the DiGraph built from data
    loopIdx,     \* per request: position of "for component in dag.nodes"
    stack,       \* per request: the active dfs_check_and_evaluate calls
    status_map,  \* per request: the insertion-ordered dict component -> status
    inflight,    \* per request: components whose probe has not ended
    calls,       \* per request: perform_health_check invocations per component
    raised,      \* per request: components whose probe ended by raising
    peak,        \* per request: largest number of probes in flight so far
    hashval,     \* process-wide: hash(component), once computed
    outcome,     \* per request: what the handler returned
    table,       \* per request: the rows of the returned status table
    image        \* per request: the nodes and colours of the returned image

vars == <<data, endpoint, recursion_limit, pc, dag, loopIdx, stack, status_map,
          inflight, calls, raised, peak, hashval, outcome, table, image>>

Range(s) == {s[i] : i \in 1..Len(s)}

Front(s) == SubSeq(s, 1, Len(s) - 1)

(***************************************************************************)
(* Inputs: descriptions with at most NumComp keys and MaxEdges dependency  *)
(* entries in total.  A dependency list may repeat an identifier and may   *)
(* name identifiers that are not keys.                                     *)
(***************************************************************************)
ListsUpTo(e) == UNION {[1..n -> Comp] : n \in 0..e}

RECURSIVE DescriptionsOf(_, _)
DescriptionsOf(k, e) ==
    IF k = 0 THEN {<< >>}
    ELSE UNION {{Append(d, l) : d \in DescriptionsOf(k - 1, e - Len(l))} :
                l \in ListsUpTo(e)}

Descriptions == UNION {DescriptionsOf(k, MaxEdges) : k \in 0..NumComp}

(***************************************************************************)
(* networkx.DiGraph: nodes in insertion order, and per node the successors *)
(* in insertion order.                                                     *)
(***************************************************************************)
EmptyGraph == [nodes |-> << >>, succ |-> [c \in Comp |-> << >>]]

add_node(g, n) ==
    IF n \in Range(g.nodes) THEN g ELSE [g EXCEPT !.nodes = Append(@, n)]

\* The edge is stored, but an end point that is not yet a node of the graph
\* is not made one.
add_edge_only(g, u, v) ==
    IF v \in Range(g.succ[u]) THEN g ELSE [g EXCEPT !.succ[u] = Append(@, v)]

\* The edge is drawn the other way, from v to u.
add_edge_reversed(g, u, v) ==
    LET g2 == add_node(add_node(g, u), v)
    IN  IF u \in Range(g2.succ[v]) THEN g2
        ELSE [g2 EXCEPT !.succ[v] = Append(@, u)]

add_edge(g, u, v) ==
    LET g2 == add_node(add_node(g, u), v)
    IN  IF v \in Range(g2.succ[u]) THEN g2
        ELSE [g2 EXCEPT !.succ[u] = Append(@, v)]

neighbors(g, n) == g.succ[n]

\* for dep in dependencies: dag.add_edge(dep, component)
RECURSIVE AddDependencies(_, _, _, _)
AddDependencies(g, component, dependencies, i) ==
    IF i > Len(dependencies) THEN g
    ELSE AddDependencies(add_edge(g, dependencies[i], component),
                         component, dependencies, i + 1)

\* for component, dependencies in data.items(): ...
RECURSIVE AddComponents(_, _, _)
AddComponents(g, d, component) ==
    IF component > Len(d) THEN g
    ELSE AddComponents(AddDependencies(add_node(g, component), component,
                                       d[component], 1),
                       d, component + 1)

create_dag_from_json(d) == AddComponents(EmptyGraph, d, 1)

(***************************************************************************)
(* The status map: a dict, kept as the sequence of its items.              *)
(***************************************************************************)
Keys(sm) == {sm[i].component : i \in 1..Len(sm)}

\* A membership test that always answers "not yet checked".
NeverInStatusMap(component, sm) == FALSE

\* component in status_map
InStatusMap(component, sm) == component \in Keys(sm)

Get(sm, component) ==
    LET i == CHOOSE j \in 1..Len(sm) : sm[j].component = component
    IN  sm[i].status

\* The dict is rebound to one that holds the new item alone.
SetOnlyItem(sm, component, status) ==
    <<[component |-> component, status |-> status]>>

SetItem(sm, component, status) ==
    IF component \in Keys(sm)
    THEN [i \in 1..Len(sm) |->
            IF sm[i].component = component
            THEN [component |-> component, status |-> status] ELSE sm[i]]
    ELSE Append(sm, [component |-> component, status |-> status])

(***************************************************************************)
(* perform_health_check: the status is decided by hash(component) % 3.     *)
(* hash() of a string is fixed for the life of the process; its residues   *)
(* are drawn from HashValues the first time a component is hashed.         *)
(***************************************************************************)
Modulus == 3

HashValues == 0..(Modulus - 1)

perform_health_check(h) == IF h % Modulus # 0 THEN "Healthy" ELSE "Failed"

\* hash(component) is drawn anew at every call.
UnstableHashOf(hv, component) == HashValues

\* The hash values hash(component) can take, given the ones already computed.
HashOf(hv, component) ==
    IF component \in DOMAIN hv THEN {hv[component]} ELSE HashValues

Hashed(hv, component, h) ==
    [c \in DOMAIN hv \cup {component} |-> IF c = component THEN h ELSE hv[c]]

(***************************************************************************)
(* dfs_check_and_evaluate: one frame per active call.                      *)
(*   "check"  at line 78, before the membership test                       *)
(*   "for"    in the loop of lines 79-80, i the next neighbour to visit    *)
(*   "await"  at line 81, suspended in perform_health_check                *)
(***************************************************************************)
Frame(component) == [component |-> component, pc |-> "check", i |-> 1]

Top(frames) == frames[Len(frames)]

SetTop(frames, f) == [frames EXCEPT ![Len(frames)] = f]

\* The probe is started as a task of its own and the call returns at once.
SpawnProbe(frames) == Front(frames)

\* status_map[component] = await perform_health_check(component): the call
\* stays suspended until the probe returns.
AwaitProbe(frames) == SetTop(frames, [Top(frames) EXCEPT !.pc = "await"])

\* A component inherits the failure of a neighbour that has already failed.
StoreDerivedStatus(sm, g, component, status) ==
    SetItem(sm, component,
            IF \E n \in Range(neighbors(g, component)) :
                   InStatusMap(n, sm) /\ Get(sm, n) = "Failed"
            THEN "Failed" ELSE status)

\* status_map[component] = <the probe's result>
StoreStatus(sm, g, component, status) == SetItem(sm, component, status)

\* generate_status_table: two header lines, then one row per item of the
\* status map, in the dict's order.
generate_status_table(sm) ==
    [header |-> <<"Component     | Health", "------------------------------">>,
     rows   |-> [i \in 1..Len(sm) |-> <<sm[i].component, sm[i].status>>]]

NoTable == [header |-> << >>, rows |-> << >>]

\* generate_dag_image: the nodes of the graph in order, each red when its
\* status is Failed and green otherwise (the layout has a fixed seed).
generate_dag_image(g, sm) ==
    [i \in 1..Len(g.nodes) |->
        <<g.nodes[i],
          IF Get(sm, g.nodes[i]) = "Failed" THEN "red" ELSE "green">>]

\* All requests share the status map of the first one.
SharedStatusMap(r) == 1

\* status_map = {}: a local of the handler, one per request.
Owner(r) == r

Requests == DOMAIN pc

InitFor(R, D, limit) ==
    /\ data \in [R -> D]
    /\ endpoint \in [R -> {"healthcheck", "graph"}]
    /\ recursion_limit = limit
    /\ pc = [r \in R |-> "start"]
    /\ dag = [r \in R |-> EmptyGraph]
    /\ loopIdx = [r \in R |-> 1]
    /\ stack = [r \in R |-> << >>]
    /\ status_map = [r \in R |-> << >>]
    /\ inflight = [r \in R |-> {}]
    /\ calls = [r \in R |-> [c \in Comp |-> 0]]
    /\ raised = [r \in R |-> {}]
    /\ peak = [r \in R |-> 0]
    /\ hashval = << >>
    /\ outcome = [r \in R |-> "pending"]
    /\ table = [r \in R |-> NoTable]
    /\ image = [r \in R |-> << >>]

Init == InitFor({1}, Descriptions, RecursionLimit)

(***************************************************************************)
(* The asyncio event loop runs one coroutine at a time, from one           *)
(* suspension to the next.  A request is suspended before its body has     *)
(* been read (line 114) and while its probe sleeps (line 63); between the  *)
(* two it holds the loop.                                                  *)
(***************************************************************************)
Active(r) ==
    /\ pc[r] = "loop"
    /\ stack[r] = << >> \/ stack[r][Len(stack[r])].pc # "await"

\* No request holds the event loop: a suspended one can be resumed.
LoopIdle == \A q \in Requests : ~Active(q)

\* One request, with a description that can be deeper than the recursion
\* limit.
DeepInit == InitFor({1}, Descriptions, DeepLimit)

\* health_check, lines 114-116: parse, build the graph, empty status map.
Build(r) ==
    /\ pc[r] = "start"
    /\ LoopIdle
    /\ dag' = [dag EXCEPT ![r] = create_dag_from_json(data[r])]
    /\ status_map' = [status_map EXCEPT ![Owner(r)] = << >>]
    /\ loopIdx' = [loopIdx EXCEPT ![r] = 1]
    /\ pc' = [pc EXCEPT ![r] = "loop"]
    /\ UNCHANGED <<endpoint, recursion_limit, image,
                   data, stack, inflight, calls, raised, peak, hashval,
                   outcome, table>>

AtLoop(r) == pc[r] = "loop" /\ stack[r] = << >>

\* health_check, lines 119-120: the next node is already in the status map.
OuterSkip(r) ==
    /\ AtLoop(r)
    /\ loopIdx[r] <= Len(dag[r].nodes)
    /\ InStatusMap(dag[r].nodes[loopIdx[r]], status_map[Owner(r)])
    /\ loopIdx' = [loopIdx EXCEPT ![r] = @ + 1]
    /\ UNCHANGED <<endpoint, recursion_limit, image,
                   data, pc, dag, stack, status_map, inflight, calls, raised,
                   peak, hashval, outcome, table>>

\* health_check, lines 119-121: the next node is not in the status map.
OuterCall(r) ==
    /\ AtLoop(r)
    /\ loopIdx[r] <= Len(dag[r].nodes)
    /\ ~InStatusMap(dag[r].nodes[loopIdx[r]], status_map[Owner(r)])
    /\ stack' = [stack EXCEPT ![r] = <<Frame(dag[r].nodes[loopIdx[r]])>>]
    /\ loopIdx' = [loopIdx EXCEPT ![r] = @ + 1]
    /\ UNCHANGED <<endpoint, recursion_limit, image,
                   data, pc, dag, status_map, inflight, calls, raised, peak,
                   hashval, outcome, table>>

\* health_check, lines 123-124: the loop is over, the table is returned.
Finish(r) ==
    /\ AtLoop(r)
    /\ endpoint[r] = "healthcheck"
    /\ loopIdx[r] > Len(dag[r].nodes)
    /\ table' = [table EXCEPT ![r] =
                    generate_status_table(status_map[Owner(r)])]
    /\ outcome' = [outcome EXCEPT ![r] = "table"]
    /\ pc' = [pc EXCEPT ![r] = "done"]
    /\ UNCHANGED <<endpoint, recursion_limit, image,
                   data, dag, loopIdx, stack, status_map, inflight, calls,
                   raised, peak, hashval>>

\* graph, lines 142-146: the loop is over, the image is returned.
FinishGraph(r) ==
    /\ AtLoop(r)
    /\ endpoint[r] = "graph"
    /\ loopIdx[r] > Len(dag[r].nodes)
    /\ IF Range(dag[r].nodes) \subseteq Keys(status_map[Owner(r)])
       THEN /\ image' = [image EXCEPT ![r] =
                    generate_dag_image(dag[r], status_map[Owner(r)])]
            /\ outcome' = [outcome EXCEPT ![r] = "image"]
       ELSE \* status_map[node] at line 99 raises KeyError, caught at 145
            /\ image' = image
            /\ outcome' = [outcome EXCEPT ![r] = "error"]
    /\ pc' = [pc EXCEPT ![r] = "done"]
    /\ UNCHANGED <<endpoint, recursion_limit, table,
                   data, dag, loopIdx, stack, status_map, inflight, calls,
                   raised, peak, hashval>>

Running(r) == pc[r] = "loop" /\ stack[r] # << >>

\* dfs_check_and_evaluate, line 78: the component is in the status map.
DfsReturn(r) ==
    /\ Running(r)
    /\ Top(stack[r]).pc = "check"
    /\ InStatusMap(Top(stack[r]).component, status_map[Owner(r)])
    /\ stack' = [stack EXCEPT ![r] = Front(@)]
    /\ UNCHANGED <<endpoint, recursion_limit, image,
                   data, pc, dag, loopIdx, status_map, inflight, calls,
                   raised, peak, hashval, outcome, table>>

\* dfs_check_and_evaluate, lines 78-79: not in the status map, start the loop.
DfsEnter(r) ==
    /\ Running(r)
    /\ Top(stack[r]).pc = "check"
    /\ ~InStatusMap(Top(stack[r]).component, status_map[Owner(r)])
    /\ stack' = [stack EXCEPT ![r] = SetTop(@, [Top(@) EXCEPT !.pc = "for"])]
    /\ UNCHANGED <<endpoint, recursion_limit, image,
                   data, pc, dag, loopIdx, status_map, inflight, calls,
                   raised, peak, hashval, outcome, table>>

MoreNeighbors(r) ==
    /\ Running(r)
    /\ Top(stack[r]).pc = "for"
    /\ Top(stack[r]).i <=
           Len(neighbors(dag[r], Top(stack[r]).component))

\* dfs_check_and_evaluate, lines 79-80: the recursive call on the next
\* neighbour.
DfsDescend(r) ==
    /\ MoreNeighbors(r)
    /\ Len(stack[r]) < recursion_limit
    /\ LET f == Top(stack[r])
           n == neighbors(dag[r], f.component)[f.i]
       IN  stack' = [stack EXCEPT ![r] =
                        Append(SetTop(@, [f EXCEPT !.i = @ + 1]), Frame(n))]
    /\ UNCHANGED <<endpoint, recursion_limit, image,
                   data, pc, dag, loopIdx, status_map, inflight, calls,
                   raised, peak, hashval, outcome, table>>

\* Line 80 at the interpreter's recursion limit: RecursionError unwinds every
\* call and is caught at lines 126-127 (145-146), which return the error.
RecursionOverflow(r) ==
    /\ MoreNeighbors(r)
    /\ Len(stack[r]) >= recursion_limit
    /\ stack' = [stack EXCEPT ![r] = << >>]
    /\ outcome' = [outcome EXCEPT ![r] = "error"]
    /\ pc' = [pc EXCEPT ![r] = "done"]
    /\ UNCHANGED <<endpoint, recursion_limit, image,
                   data, dag, loopIdx, status_map, inflight, calls, raised,
                   peak, hashval, table>>

\* Line 81 and lines 62-63: the loop is over, the probe of the component starts.
StartProbe(r) ==
    /\ Running(r)
    /\ Top(stack[r]).pc = "for"
    /\ Top(stack[r]).i > Len(neighbors(dag[r], Top(stack[r]).component))
    /\ LET c == Top(stack[r]).component
       IN  /\ calls' = [calls EXCEPT ![r][c] = @ + 1]
           /\ inflight' = [inflight EXCEPT ![r] = @ \cup {c}]
           /\ peak' = [peak EXCEPT ![r] =
                  IF Cardinality(inflight[r] \cup {c}) > @
                  THEN Cardinality(inflight[r] \cup {c}) ELSE @]
    /\ stack' = [stack EXCEPT ![r] = AwaitProbe(@)]
    /\ UNCHANGED <<endpoint, recursion_limit, image,
                   data, pc, dag, loopIdx, status_map, raised, hashval, outcome,
                   table>>

\* Lines 64 and 81: the probe returns, its result is stored, the call returns.
ProbeReturn(r) ==
    /\ pc[r] = "loop"
    /\ LoopIdle
    /\ \E c \in inflight[r] : \E h \in HashOf(hashval, c) :
         /\ hashval' = Hashed(hashval, c, h)
         /\ status_map' = [status_map EXCEPT ![Owner(r)] =
                StoreStatus(@, dag[r], c, perform_health_check(h))]
         /\ inflight' = [inflight EXCEPT ![r] = @ \ {c}]
         /\ stack' = [stack EXCEPT ![r] =
                IF @ # << >> /\ Top(@).pc = "await" /\ Top(@).component = c
                THEN Front(@) ELSE @]
    /\ UNCHANGED <<endpoint, recursion_limit, image,
                   data, pc, dag, loopIdx, calls, raised, peak, outcome,
                   table>>

\* Line 63: the request's task is cancelled while the probe sleeps.  The
\* CancelledError raised at the await passes lines 81, 80 and 121, is not an
\* Exception for line 126, and ends the request without a response.
ProbeRaises(r) ==
    /\ pc[r] = "loop"
    /\ LoopIdle
    /\ inflight[r] # {}
    /\ raised' = [raised EXCEPT ![r] = @ \cup inflight[r]]
    /\ inflight' = [inflight EXCEPT ![r] = {}]
    /\ stack' = [stack EXCEPT ![r] = << >>]
    /\ outcome' = [outcome EXCEPT ![r] = "cancelled"]
    /\ pc' = [pc EXCEPT ![r] = "done"]
    /\ UNCHANGED <<endpoint, recursion_limit, image,
                   data, dag, loopIdx, status_map, calls, peak, hashval,
                   table>>

\* Every step of a request except its cancellation.
Progress ==
    \E r \in Requests :
        \/ Build(r)
        \/ OuterSkip(r)
        \/ OuterCall(r)
        \/ Finish(r)
        \/ FinishGraph(r)
        \/ DfsReturn(r)
        \/ DfsEnter(r)
        \/ DfsDescend(r)
        \/ RecursionOverflow(r)
        \/ StartProbe(r)
        \/ ProbeReturn(r)

Next ==
    \/ \E r \in Requests : Build(r)
    \/ \E r \in Requests : OuterSkip(r)
    \/ \E r \in Requests : OuterCall(r)
    \/ \E r \in Requests : Finish(r)
    \/ \E r \in Requests : FinishGraph(r)
    \/ \E r \in Requests : DfsReturn(r)
    \/ \E r \in Requests : DfsEnter(r)
    \/ \E r \in Requests : DfsDescend(r)
    \/ \E r \in Requests : RecursionOverflow(r)
    \/ \E r \in Requests : StartProbe(r)
    \/ \E r \in Requests : ProbeReturn(r)
    \/ \E r \in Requests : ProbeRaises(r)

Spec == Init /\ [][Next]_vars

\* The event loop runs every coroutine that is ready, and a sleeping probe
\* wakes up; cancellation is not bound to happen.
FairSpec == Spec /\ WF_vars(Progress)

\* The same program, run on descriptions deeper than the recursion limit.
DeepSpec == DeepInit /\ [][Next]_vars

(***************************************************************************)
(* Vocabulary of the properties.  "X depends on D" is read off the         *)
(* description: D is listed in data[X].                                    *)
(***************************************************************************)
KeysOf(d) == 1..Len(d)

DepsOf(d, x) == IF x \in KeysOf(d) THEN Range(d[x]) ELSE {}

\* Every identifier of the description: keys and listed dependencies.
ComponentsOf(d) == KeysOf(d) \cup UNION {DepsOf(d, x) : x \in KeysOf(d)}

RECURSIVE Closure(_, _)
Closure(d, S) ==
    LET T == S \cup UNION {DepsOf(d, x) : x \in S}
    IN  IF T = S THEN S ELSE Closure(d, T)

\* The direct and transitive dependencies of x.
TransitiveDeps(d, x) == Closure(d, DepsOf(d, x))

HasCycle(d) == \E x \in KeysOf(d) : x \in TransitiveDeps(d, x)

Acyclic(d) == ~HasCycle(d)

HasUnknownDependency(d) == ComponentsOf(d) # KeysOf(d)

\* Neither is a transitive dependency of the other.
Independent(d, x, y) ==
    /\ x # y
    /\ x \notin TransitiveDeps(d, y)
    /\ y \notin TransitiveDeps(d, x)

\* Number of dependency entries of a description.
RECURSIVE Entries(_, _)
Entries(d, k) == IF k = 0 THEN 0 ELSE Len(d[k]) + Entries(d, k - 1)

\* The descriptions two concurrent requests are given.
PairDescriptions ==
    {d \in Descriptions :
        /\ ComponentsOf(d) \subseteq 1..PairComp
        /\ Entries(d, Len(d)) <= PairEdges}

\* Two requests, to either endpoint, in flight in the same process.  The
\* two are interchangeable: request 1 is the one of no fewer keys.
PairInit ==
    /\ InitFor({1, 2}, PairDescriptions, RecursionLimit)
    /\ Len(data[1]) >= Len(data[2])
    /\ Entries(data[1], Len(data[1])) + Entries(data[2], Len(data[2]))
           <= PairEdges

PairSpec == PairInit /\ [][Next]_vars

\* Two requests for the same description, to either endpoint, in flight in
\* the same process.
TwinInit ==
    /\ InitFor({1, 2}, PairDescriptions, RecursionLimit)
    /\ data[1] = data[2]

TwinSpec == TwinInit /\ [][Next]_vars

(***************************************************************************)
(* The walk of lines 76-81 and 119-121 as a function of the graph: the     *)
(* order in which one evaluation, run alone, stores the components.        *)
(***************************************************************************)
RECURSIVE Visit(_, _, _)
RECURSIVE VisitAll(_, _, _, _)
Visit(g, component, order) ==
    IF component \in Range(order) THEN order
    ELSE Append(VisitAll(g, neighbors(g, component), 1, order), component)

VisitAll(g, components, i, order) ==
    IF i > Len(components) THEN order
    ELSE VisitAll(g, components, i + 1, Visit(g, components[i], order))

SoloOrder(g) == VisitAll(g, g.nodes, 1, << >>)

\* The status map of an evaluation of d run alone, under the hash values hv.
SoloStatusMap(d, hv) ==
    LET order == SoloOrder(create_dag_from_json(d))
    IN  [i \in 1..Len(order) |->
            [component |-> order[i],
             status |-> perform_health_check(hv[order[i]])]]

\* The request returned its report: the table, or the image.
Reported(r) == outcome[r] \in {"table", "image"}

\* Position of a component among the rows of a table (0: absent).
RowOf(t, component) ==
    IF \E i \in 1..Len(t.rows) : t.rows[i][1] = component
    THEN CHOOSE i \in 1..Len(t.rows) : t.rows[i][1] = component
    ELSE 0

\* C1: in an evaluation of an acyclic description, while the probe of X is
\* running every D listed in data[X] is already in the status map (the
\* status map does not change between the start of a probe and its return).
C1_DependenciesResolvedFirst ==
    \A r \in Requests :
        Acyclic(data[r]) =>
            \A x \in inflight[r] : \A dep \in DepsOf(data[r], x) :
                dep \in Keys(status_map[r])

\* C2: in an evaluation of an acyclic description no component is probed
\* twice, and when the report is returned every component of the graph has
\* been probed exactly once (and nothing else has been probed).
C2_ProbedExactlyOnce ==
    \A r \in Requests :
        /\ \A c \in Comp : calls[r][c] > 1 => HasCycle(data[r])
        /\ (Reported(r) /\ Acyclic(data[r])) =>
              \A c \in Comp :
                  calls[r][c] = IF c \in ComponentsOf(data[r]) THEN 1 ELSE 0

\* A finished evaluation of a description in which component c is reached
\* along two paths: a is a dependency of b and of c, and b of c.
C2_Witness ==
    \E r \in Requests :
        /\ outcome[r] = "table"
        /\ Acyclic(data[r])
        /\ \E a, b, c \in Comp :
              /\ a # b /\ b # c /\ a # c
              /\ a \in DepsOf(data[r], b)
              /\ a \in DepsOf(data[r], c)
              /\ b \in DepsOf(data[r], c)
              /\ calls[r][a] = 1 /\ calls[r][b] = 1 /\ calls[r][c] = 1

\* C3: an evaluation (not cancelled) of a description with a cycle ends
\* with the outcome CycleError.
C3_CycleError ==
    \A r \in Requests :
        (HasCycle(data[r]) /\ pc[r] = "done" /\ outcome[r] # "cancelled")
            => outcome[r] = "CycleError"

\* C4: in an evaluation of a description with a cycle no component is ever
\* probed.
C4_NoProbeOfCyclicDescription ==
    \A r \in Requests :
        HasCycle(data[r]) => \A c \in Comp : calls[r][c] = 0

\* C5: an evaluation (not cancelled) of a description that lists an
\* identifier which is not a key ends with the outcome
\* UnknownDependencyError, and no status report is produced.  Stated for the
\* descriptions without a cycle, where no other structural error applies.
C5_UnknownDependencyError ==
    \A r \in Requests :
        (HasUnknownDependency(data[r]) /\ Acyclic(data[r])) =>
            /\ ~Reported(r)
            /\ (pc[r] = "done" /\ outcome[r] # "cancelled")
                  => outcome[r] = "UnknownDependencyError"

\* C6: when the evaluation of an acyclic description returns its report and
\* component a is Failed, every component b that depends on a, directly or
\* transitively, has been probed and its status is the result of its own
\* probe.
C6_FailureDoesNotBlockDependents ==
    \A r \in Requests :
        (Reported(r) /\ Acyclic(data[r])) =>
            \A a \in Keys(status_map[r]) :
                Get(status_map[r], a) = "Failed" =>
                    \A b \in KeysOf(data[r]) :
                        a \in TransitiveDeps(data[r], b) =>
                            /\ calls[r][b] = 1
                            /\ b \in Keys(status_map[r])
                            /\ b \in DOMAIN hashval
                            /\ Get(status_map[r], b) =
                                   perform_health_check(hashval[b])

\* A finished evaluation in which a is Failed and b, which depends on a, is
\* Healthy.
C6_Witness ==
    \E r \in Requests :
        /\ outcome[r] = "table"
        /\ \E a, b \in Keys(status_map[r]) :
              /\ a \in DepsOf(data[r], b)
              /\ Get(status_map[r], a) = "Failed"
              /\ Get(status_map[r], b) = "Healthy"

\* C7: when the evaluation of a description with two independent components
\* returns its report, there has been a state of that evaluation in which
\* two probes were in flight at the same time.
C7_IndependentProbesOverlap ==
    \A r \in Requests :
        (/\ Reported(r)
         /\ \E x, y \in ComponentsOf(data[r]) : Independent(data[r], x, y))
            => peak[r] >= 2

\* C8: at no time does an evaluation have more than one probe in flight,
\* hence never more than any concurrency limit of at least one, whatever
\* the width of the graph.
C8_BoundedFanOut ==
    \A r \in Requests : Cardinality(inflight[r]) <= 1

\* A probe is in flight while another component, independent of it, is
\* still unresolved.
C8_Witness ==
    \E r \in Requests : \E x \in inflight[r] :
        \E y \in ComponentsOf(data[r]) :
            /\ Independent(data[r], x, y)
            /\ y \notin Keys(status_map[r])

\* Components whose probe did not determine a positive status.
FailedProbes(r) ==
    raised[r] \cup {c \in Keys(status_map[r]) \cap DOMAIN hashval :
                       perform_health_check(hashval[c]) = "Failed"}

\* C9: when the evaluation of an acyclic description has ended and some
\* probe returned Failed or raised, the request returned a status report,
\* every component of the graph has a status and each of those components
\* is recorded as Failed.
C9_ProbeFailuresAbsorbed ==
    \A r \in Requests :
        (Acyclic(data[r]) /\ pc[r] = "done" /\ FailedProbes(r) # {}) =>
            /\ Reported(r)
            /\ Keys(status_map[r]) = ComponentsOf(data[r])
            /\ \A c \in FailedProbes(r) :
                  /\ c \in Keys(status_map[r])
                  /\ Get(status_map[r], c) = "Failed"

\* C10: in the returned table every component is listed after all the
\* components it depends on.
C10_ReportDependencyFirst ==
    \A r \in Requests :
        outcome[r] = "table" =>
            \A x \in KeysOf(data[r]) : \A dep \in DepsOf(data[r], x) :
                /\ RowOf(table[r], dep) > 0
                /\ RowOf(table[r], dep) < RowOf(table[r], x)

\* C12: when the evaluation of an acyclic description returns its report,
\* the keys of the status map are exactly the components of the graph (the
\* keys of the description and the identifiers that only appear in a
\* dependency list), and every value is Healthy or Failed, the result of
\* that component's probe.
C12_StatusMapComplete ==
    \A r \in Requests :
        (Reported(r) /\ Acyclic(data[r])) =>
            /\ Keys(status_map[r]) = ComponentsOf(data[r])
            /\ Len(status_map[r]) = Cardinality(ComponentsOf(data[r]))
            /\ \A c \in Keys(status_map[r]) :
                  /\ Get(status_map[r], c) \in {"Healthy", "Failed"}
                  /\ c \in DOMAIN hashval
                  /\ Get(status_map[r], c) = perform_health_check(hashval[c])

\* A returned table for a description that names an identifier which is not
\* a key; that identifier has a status.
C12_Witness ==
    \E r \in Requests :
        /\ outcome[r] = "table"
        /\ \E c \in ComponentsOf(data[r]) \ KeysOf(data[r]) :
              c \in Keys(status_map[r])

\* C13: when an evaluation has been cancelled after some component was
\* resolved, the caller has a report with one row per component of the
\* graph: the status of each resolved component, Unknown for the others.
C13_CancellationKeepsPartialResults ==
    \A r \in Requests :
        (outcome[r] = "cancelled" /\ status_map[r] # << >>) =>
            \A c \in ComponentsOf(data[r]) :
                /\ RowOf(table[r], c) > 0
                /\ table[r].rows[RowOf(table[r], c)][2] =
                       IF c \in Keys(status_map[r])
                       THEN Get(status_map[r], c) ELSE "Unknown"

\* C15: the returned report (of a graph that is not empty) carries an
\* overall status, which is Healthy exactly when every status in the status
\* map is Healthy.
C15_OverallStatus ==
    \A r \in Requests :
        (outcome[r] = "table" /\ status_map[r] # << >>) =>
            /\ "overall" \in DOMAIN table[r]
            /\ (table[r].overall = "Healthy") <=>
                  (\A c \in Keys(status_map[r]) :
                       Get(status_map[r], c) = "Healthy")

\* The status map of request r is left as it is, or gets one item at its
\* end for a component that had none.
Extended(r) ==
    \/ status_map'[r] = status_map[r]
    \/ /\ Len(status_map'[r]) = Len(status_map[r]) + 1
       /\ SubSeq(status_map'[r], 1, Len(status_map[r])) = status_map[r]
       /\ status_map'[r][Len(status_map'[r])].component
              \notin Keys(status_map[r])

\* The step is the return of the probe of component c of request r.
Resolves(r, c) ==
    /\ c \in inflight[r]
    /\ c \notin inflight'[r]
    /\ outcome'[r] # "cancelled"

\* C16: every step leaves the items of the status map in place, unchanged,
\* adding at most one; the step that resolves component c adds exactly the
\* item of c.
C16_SingleResolution ==
    [][\A r \in Requests :
          /\ Extended(r)
          /\ \A c \in Comp :
                Resolves(r, c) =>
                    /\ Len(status_map'[r]) = Len(status_map[r]) + 1
                    /\ status_map'[r][Len(status_map'[r])].component = c]_vars

\* The status map holds two items: the second was added with the first
\* already there.
C16_Witness ==
    \E r \in Requests : Len(status_map[r]) >= 2

C18_TerminatesResolved ==
    \A r \in Requests :
        Acyclic(data[r]) =>
            /\ Len(stack[r]) <= Cardinality(ComponentsOf(data[r]))
            /\ (pc[r] = "done" /\ raised[r] = {}) =>
                  /\ Reported(r)
                  /\ Keys(status_map[r]) = ComponentsOf(data[r])

\* C11: two evaluations of the same description in one process, however
\* their probes interleave, end with the same status map - the same status
\* for every component, in the same order - and, at the same endpoint, with
\* the same table and the same image.
C11_Deterministic ==
    \A r1, r2 \in Requests :
        (data[r1] = data[r2] /\ Reported(r1) /\ Reported(r2)) =>
            /\ status_map[r1] = status_map[r2]
            /\ endpoint[r1] = endpoint[r2] =>
                  (table[r1] = table[r2] /\ image[r1] = image[r2])

\* Two requests with the same description of two or more components have
\* both returned their report.
C11_Witness ==
    \E r1, r2 \in Requests :
        /\ r1 # r2
        /\ data[r1] = data[r2]
        /\ Reported(r1) /\ Reported(r2)
        /\ Len(status_map[r1]) >= 2

\* C14: of two requests evaluated concurrently, each has a status map that
\* holds components of its own description only, probes none of its
\* components twice, and returns its report with each of its components
\* probed once and the status map it has when it runs alone.
C14_RequestsIsolated ==
    \A r \in Requests :
        /\ Keys(status_map[r]) \subseteq ComponentsOf(data[r])
        /\ \A c \in Comp : calls[r][c] <= 1
        /\ Reported(r) =>
              /\ \A c \in Comp :
                    calls[r][c] = IF c \in ComponentsOf(data[r]) THEN 1 ELSE 0
              /\ status_map[r] = SoloStatusMap(data[r], hashval)

\* Two requests with different descriptions each have a status stored and
\* a probe in flight at the same time.
C14_Witness ==
    /\ Requests = {1, 2}
    /\ data[1] # data[2]
    /\ \A r \in Requests : inflight[r] # {} /\ status_map[r] # << >>

====
